---- MODULE Spec2Model ----
(***************************************************************************)
(* Simulation core of src/src/App.tsx: the fixed-step tick (updateMode),   *)
(* the player and block state machines, the collision resolver, the match  *)
(* solver and the row spawner.                                             *)
(*                                                                         *)
(* Lengths are integers in sub-pixel units, PX units to the pixel.  The    *)
(* code's fractions are 0.9, 1.1, 0.5 and 0.25 of BLOCK_SIZE, jumpTime/30  *)
(* of 5 and of 4 pixels, and the tween's timer/10 applied at most twice    *)
(* between two plain rectangles, so with PX = 30 * 10 * 10 every length    *)
(* the program computes is an integer number of units.                     *)
(* The model's arithmetic is exact where the program's is IEEE double.      *)
(***************************************************************************)
EXTENDS Integers, Sequences, FiniteSets, TLC

PX == 30 * 10 * 10

SCREEN_HEIGHT == 720 * PX
BLOCK_SIZE == 64 * PX
GRID_WIDTH == 8
MAX_BLOCKS == 4
SOLVE_TIME == 30
FALL_SPEED == 5 * PX
FLOAT_SPEED == 8 * PX
BLOCK_ROW_BUFFER == 20
JUMP_TIME == 30
WALLJUMP_TIME == 30
FLOATING_TIME == 30
THROW_SPEED == 8 * PX

blockStates == {"idle", "lifted", "thrown", "ground", "falling", "solving"}
playerStates == {"ground", "jumping", "falling", "wallride", "walljumping", "floating"}

\* The colours in the order of the blockColors array (index 0..3).
blockColors == <<"red", "green", "blue", "yellow">>

\* Bounds of the model.
\* While the player falls, jumpTime is decremented every tick; it is kept
\* from running below -MaxFallCount (the code reads only jumpTime > 0 there).
MaxFallCount == 1
\* block.timer counts every tick of a block's life; it is read only against
\* SOLVE_TIME and the tween time 10, and stops counting at MaxTimer.
MaxTimer == 30

Max(a, b) == IF a >= b THEN a ELSE b
Min(a, b) == IF a <= b THEN a ELSE b

\* Array.prototype.find as an index: the first of the indices I whose
\* elements pass the test, 0 when there is none.
FindIndex(I) ==
  IF I = {} THEN 0 ELSE CHOOSE i \in I : \A j \in I : i <= j

\* Array.prototype.indexOf on the carried list (0-based, -1 when absent).
indexOf(s, e) ==
  LET I == {i \in 1..Len(s) : s[i] = e}
  IN IF I = {} THEN -1 ELSE (CHOOSE i \in I : \A j \in I : i <= j) - 1

RemoveAt(s, i) == SubSeq(s, 1, i - 1) \o SubSeq(s, i + 1, Len(s))

-----------------------------------------------------------------------------
(* Coordinate model *)

\* An unset tweenRect (the optional field of Block).
NoRect == [x |-> 0, y |-> 0, width |-> 0, height |-> 0]

addPosition(x, y, pos) ==
  [x |-> pos.x + x, y |-> pos.y + y,
   ix |-> (pos.x + x) \div BLOCK_SIZE, iy |-> (pos.y + y) \div BLOCK_SIZE]

setPosition(x, y, pos) ==
  [x |-> x, y |-> y, ix |-> x \div BLOCK_SIZE, iy |-> y \div BLOCK_SIZE]

checkAABB(rect1, rect2) ==
  /\ rect1.x < rect2.x + rect2.width
  /\ rect1.x + rect1.width > rect2.x
  /\ rect1.y < rect2.y + rect2.height
  /\ rect1.y + rect1.height > rect2.y

\* The nudge both move-and-collide functions compute against the first
\* rectangle the moved rectangle overlaps.
nudgeX(myRect, blockRect, movementX) ==
  LET n1 == IF movementX < 0 /\ blockRect.x + blockRect.width > myRect.x
            THEN -(myRect.x - (blockRect.x + blockRect.width)) + movementX
            ELSE 0
  IN IF movementX > 0 /\ blockRect.x < myRect.x + myRect.width
     THEN -(myRect.x + myRect.width - blockRect.x) + movementX
     ELSE n1

nudgeY(myRect, blockRect, movementY) ==
  LET n1 == IF movementY < 0 /\ blockRect.y + blockRect.height > myRect.y
            THEN -(myRect.y - (blockRect.y + blockRect.height)) + movementY
            ELSE 0
  IN IF movementY > 0 /\ blockRect.y < myRect.y + myRect.height
     THEN -(myRect.y + myRect.height - blockRect.y) + movementY
     ELSE n1

-----------------------------------------------------------------------------
(* Blocks *)

blockIsPickable(block) ==
  block.state \in {"idle", "ground", "falling", "solving"}

\* blockIsSolvable with solving left out of the solvable states.
blockIsSolvableNotSolving(block) ==
  block.state \in {"idle", "ground"}

blockIsSolvable(block) ==
  block.state \in {"idle", "ground", "solving"}

blocksMatch(block1, block2) ==
  IF ~blockIsSolvable(block1) \/ ~blockIsSolvable(block2)
  THEN FALSE
  ELSE block1.color = block2.color

blockRectangle(block) ==
  [x |-> block.pos.x - BLOCK_SIZE \div 2,
   y |-> block.pos.y - BLOCK_SIZE,
   width |-> BLOCK_SIZE,
   height |-> BLOCK_SIZE]

\* lerp(a, b, clamp01(timer / tweenTime)) with tweenTime = 10.
lerp10(a, b, timer) ==
  LET k == Max(0, Min(10, timer))
  IN a + ((b - a) * k) \div 10

blockVisualRectangle(block) ==
  LET plain == blockRectangle(block)
      target ==
        CASE block.state = "lifted" ->
               [x |-> block.pos.x - BLOCK_SIZE \div 4,
                y |-> block.pos.y - BLOCK_SIZE \div 2,
                width |-> BLOCK_SIZE \div 2,
                height |-> BLOCK_SIZE \div 2]
          [] block.state = "thrown" ->
               [x |-> block.pos.x - BLOCK_SIZE \div 8,
                y |-> block.pos.y - BLOCK_SIZE,
                width |-> BLOCK_SIZE \div 4,
                height |-> BLOCK_SIZE]
          [] OTHER -> plain
  IN IF block.state \in {"lifted", "thrown"} /\ block.tweenRect # NoRect
     THEN [x |-> lerp10(block.tweenRect.x, target.x, block.timer),
           y |-> lerp10(block.tweenRect.y, target.y, block.timer),
           width |-> lerp10(block.tweenRect.width, target.width, block.timer),
           height |-> lerp10(block.tweenRect.height, target.height, block.timer)]
     ELSE target

\* blockSetState without the early return on an unchanged state.
blockSetStateAlways(block, state) ==
  [block EXCEPT !.tweenRect = blockVisualRectangle(block),
                !.state = state,
                !.timer = 0]

blockSetState(block, state) ==
  IF block.state = state
  THEN block
  ELSE [block EXCEPT !.tweenRect = blockVisualRectangle(block),
                     !.state = state,
                     !.timer = 0]

-----------------------------------------------------------------------------
(* The world: player, block collection (in array order), spawner state.   *)
(* The player's carried list holds block ids, the identity of the Block    *)
(* objects that the player's array and the collection share.               *)

playerRectangle(player) ==
  [x |-> player.pos.x - player.width \div 2,
   y |-> player.pos.y - (BLOCK_SIZE * 9) \div 10,
   width |-> player.width,
   height |-> (BLOCK_SIZE * 9) \div 10]

\* playerSetState without the timer of a fall off the ground.
playerSetStateNoGrace(player, state) ==
  LET jt == CASE state = "jumping" -> JUMP_TIME
              [] state = "walljumping" -> WALLJUMP_TIME
              [] state = "floating" -> FLOATING_TIME
              [] OTHER -> 0
  IN [player EXCEPT !.state = state, !.jumpTime = jt]

playerSetState(player, state) ==
  LET jt0 == IF player.state = "ground" /\ state = "falling" THEN 5 ELSE 0
      jt == CASE state = "jumping" -> JUMP_TIME
              [] state = "walljumping" -> WALLJUMP_TIME
              [] state = "floating" -> FLOATING_TIME
              [] OTHER -> jt0
  IN [player EXCEPT !.state = state, !.jumpTime = jt]

\* Index in w.blocks of the first pickable block, other than the one at
\* index i, that overlaps myRect (0: none).
blockFirstHit(w, i, myRect) ==
  FindIndex({n \in 1..Len(w.blocks) :
               /\ blockIsPickable(w.blocks[n])
               /\ w.blocks[n].id # w.blocks[i].id
               /\ checkAABB(myRect, blockRectangle(w.blocks[n]))})

\* blockMoveAndCollide on the block at index i: the world after, and the
\* boolean the function returns.
blockMoveAndCollide(w, i, movementX, movementY) ==
  LET block == w.blocks[i]
      r0 == blockRectangle(block)
      myRect == [r0 EXCEPT !.x = r0.x + movementX, !.y = r0.y + movementY]
      hit == blockFirstHit(w, i, myRect)
      blockRect == blockRectangle(w.blocks[hit])
  IN IF hit # 0
     THEN [w |-> [w EXCEPT !.blocks[i].pos =
                     addPosition(nudgeX(myRect, blockRect, movementX),
                                 nudgeY(myRect, blockRect, movementY),
                                 block.pos)],
           ok |-> FALSE]
     ELSE [w |-> [w EXCEPT !.blocks[i].pos =
                     addPosition(movementX, movementY, block.pos)],
           ok |-> TRUE]

\* The block blockSettle aligns the block at index i to (0: none).
blockSettleNext(w, i) ==
  LET block == w.blocks[i]
      pickRect == [x |-> block.pos.x, y |-> block.pos.y,
                   width |-> BLOCK_SIZE, height |-> 4 * PX]
  IN FindIndex({n \in 1..Len(w.blocks) :
                  /\ w.blocks[n].id # block.id
                  /\ checkAABB(pickRect, blockRectangle(w.blocks[n]))})

\* blockSettle taking the row of the block underneath for the settled block.
blockSettleSameRow(w, i) ==
  LET block == w.blocks[i]
      n == blockSettleNext(w, i)
      nextBlock == w.blocks[n]
      moved == IF n # 0
               THEN [block EXCEPT !.pos = [x |-> block.pos.x,
                                           y |-> nextBlock.pos.y - BLOCK_SIZE,
                                           ix |-> block.pos.ix,
                                           iy |-> nextBlock.pos.iy]]
               ELSE block
  IN [w EXCEPT !.blocks[i] = blockSetState(moved, "ground")]

blockSettle(w, i) ==
  LET block == w.blocks[i]
      n == blockSettleNext(w, i)
      nextBlock == w.blocks[n]
      moved == IF n # 0
               THEN [block EXCEPT !.pos = [x |-> block.pos.x,
                                           y |-> nextBlock.pos.y - BLOCK_SIZE,
                                           ix |-> block.pos.ix,
                                           iy |-> nextBlock.pos.iy - 1]]
               ELSE block
  IN [w EXCEPT !.blocks[i] = blockSetState(moved, "ground")]

\* blockUpdate on the block at index i of the live array.
blockUpdate(w0, i) ==
  LET w == [w0 EXCEPT !.blocks[i].timer = Min(@ + 1, Max(MaxTimer, SOLVE_TIME))]
      block == w.blocks[i]
      player == w.player
  IN CASE block.state = "idle" -> w
       [] block.state = "lifted" ->
            LET index == indexOf(player.blocks, block.id)
            IN [w EXCEPT !.blocks[i].pos =
                  setPosition(player.pos.x,
                              player.pos.y - player.height - index * (BLOCK_SIZE \div 2),
                              block.pos)]
       [] block.state = "thrown" ->
            LET m == blockMoveAndCollide(w, i, 0, THROW_SPEED)
                w1 == IF checkAABB(blockRectangle(m.w.blocks[i]),
                                   playerRectangle(m.w.player))
                      THEN [m.w EXCEPT !.player = playerSetState(@, "floating")]
                      ELSE m.w
            IN IF ~m.ok THEN blockSettle(w1, i) ELSE m.w
       [] block.state = "ground" ->
            LET m == blockMoveAndCollide(w, i, 0, FALL_SPEED)
            IN IF m.ok
               THEN [m.w EXCEPT !.blocks[i] = blockSetState(@, "falling")]
               ELSE m.w
       [] block.state = "falling" ->
            LET m == blockMoveAndCollide(w, i, 0, FALL_SPEED)
            IN IF ~m.ok THEN blockSettle(m.w, i) ELSE m.w
       [] block.state = "solving" ->
            IF block.timer >= SOLVE_TIME
            THEN [w EXCEPT !.blocks = RemoveAt(@, i)]
            ELSE w

-----------------------------------------------------------------------------
(* Match solver *)

\* The scan window of checkSolutions: rows minY..maxY.
solveMinY(w) == w.player.pos.iy - BLOCK_ROW_BUFFER
solveMaxY(w) == w.bottomRow

\* blockmap[k]: the index in w.blocks of the block stored last at array
\* index k (0: the slot is empty).
blockmap(w, k) ==
  LET minY == solveMinY(w)
      I == {i \in 1..Len(w.blocks) :
              /\ w.blocks[i].pos.iy >= minY
              /\ w.blocks[i].pos.iy <= solveMaxY(w)
              /\ (w.blocks[i].pos.iy - minY) * GRID_WIDTH + w.blocks[i].pos.ix = k}
  IN IF I = {} THEN 0 ELSE CHOOSE i \in I : \A j \in I : i >= j

\* The horizontal streak that starts at window cell (j, i) with block b:
\* the indices it pushes for columns k..GRID_WIDTH-1.
RECURSIVE streakH(_, _, _, _)
streakH(w, b, j, k) ==
  IF k >= GRID_WIDTH THEN <<>>
  ELSE LET n == blockmap(w, j * GRID_WIDTH + k)
       IN IF n = 0 \/ ~blocksMatch(w.blocks[b], w.blocks[n]) THEN <<>>
          ELSE <<n>> \o streakH(w, b, j, k + 1)

\* The vertical streak from window cell (j, i): rows k..height-1.
RECURSIVE streakV(_, _, _, _, _)
streakV(w, b, i, k, height) ==
  IF k >= height THEN <<>>
  ELSE LET n == blockmap(w, k * GRID_WIDTH + i)
       IN IF n = 0 \/ ~blocksMatch(w.blocks[b], w.blocks[n]) THEN <<>>
          ELSE <<n>> \o streakV(w, b, i, k + 1, height)

\* streakAccepted without the ground-or-solving member.
streakAcceptedAnyThree(w, streak) ==
  Len(streak) >= 3

\* A streak is accepted when it has 3 or more blocks, one of them ground or
\* solving.
streakAccepted(w, streak) ==
  /\ Len(streak) >= 3
  /\ \E m \in 1..Len(streak) : w.blocks[streak[m]].state \in {"ground", "solving"}

\* solvedBlocks: the indices of the blocks of every accepted streak.
solvedBlocks(w) ==
  LET minY == solveMinY(w)
      height == solveMaxY(w) - minY + 1
      slot(m) == (w.blocks[m].pos.iy - minY) * GRID_WIDTH + w.blocks[m].pos.ix
      \* the occupied slots the two loops visit, as <<j, i, block index>>
      cells == {<<slot(n) \div GRID_WIDTH, slot(n) % GRID_WIDTH, n>> :
                  n \in {m \in 1..Len(w.blocks) :
                           /\ w.blocks[m].pos.iy >= minY
                           /\ w.blocks[m].pos.iy <= solveMaxY(w)
                           /\ slot(m) >= 0
                           /\ slot(m) < GRID_WIDTH * height
                           /\ blockmap(w, slot(m)) = m}}
      hs(c) == <<c[3]>> \o streakH(w, c[3], c[1], c[2] + 1)
      vs(c) == <<c[3]>> \o streakV(w, c[3], c[2], c[1] + 1, height)
      members(st) == {st[m] : m \in 1..Len(st)}
  IN UNION {(IF streakAccepted(w, hs(c)) THEN members(hs(c)) ELSE {})
              \cup (IF streakAccepted(w, vs(c)) THEN members(vs(c)) ELSE {}) :
            c \in cells}

checkSolutions(w) ==
  LET solved == solvedBlocks(w)
  IN [w EXCEPT !.blocks =
        [n \in 1..Len(w.blocks) |->
           IF n \in solved THEN blockSetState(w.blocks[n], "solving")
           ELSE w.blocks[n]]]

-----------------------------------------------------------------------------
(* Player *)

\* player.wallriding is number | null: <<>> is null, <<n>> the number n.
wallridingOr0(player) ==
  IF player.wallriding = <<>> THEN 0 ELSE player.wallriding[1]

sign(n) == IF n > 0 THEN 1 ELSE IF n < 0 THEN -1 ELSE 0

\* collideBlock: index of the first block, in any state, overlapping rect.
collideBlock(w, rect) ==
  FindIndex({n \in 1..Len(w.blocks) : checkAABB(blockRectangle(w.blocks[n]), rect)})

\* Index of the first pickable block overlapping the moved player rectangle.
playerFirstHit(w, playerRect) ==
  FindIndex({n \in 1..Len(w.blocks) :
               /\ blockIsPickable(w.blocks[n])
               /\ checkAABB(playerRect, blockRectangle(w.blocks[n]))})

playerMoveAndCollide(w, movementX, movementY) ==
  LET player == w.player
      r0 == playerRectangle(player)
      playerRect == [r0 EXCEPT !.x = r0.x + movementX, !.y = r0.y + movementY]
      hit == playerFirstHit(w, playerRect)
      blockRect == blockRectangle(w.blocks[hit])
  IN IF playerRect.x < 0
     THEN [w |-> [w EXCEPT !.player.pos =
                     addPosition(movementX - playerRect.x, 0, player.pos)],
           ok |-> FALSE]
     ELSE IF playerRect.x + playerRect.width > GRID_WIDTH * BLOCK_SIZE
     THEN [w |-> [w EXCEPT !.player.pos =
                     addPosition(movementX + (GRID_WIDTH * BLOCK_SIZE
                                              - (playerRect.x + playerRect.width)),
                                 0, player.pos)],
           ok |-> FALSE]
     ELSE IF hit # 0
     THEN [w |-> [w EXCEPT !.player.pos =
                     addPosition(nudgeX(playerRect, blockRect, movementX),
                                 nudgeY(playerRect, blockRect, movementY),
                                 player.pos)],
           ok |-> FALSE]
     ELSE [w |-> [w EXCEPT !.player.pos =
                     addPosition(movementX, movementY, player.pos)],
           ok |-> TRUE]

\* onGround probing from above the head down to under the feet and taking
\* the last block found.
onGroundWholeColumn(w) ==
  LET player == w.player
      pickRect == [x |-> player.pos.x - player.width \div 2,
                   y |-> player.pos.y - 2 * BLOCK_SIZE,
                   width |-> player.width,
                   height |-> 2 * BLOCK_SIZE + BLOCK_SIZE \div 4]
      hits == {n \in 1..Len(w.blocks) : checkAABB(pickRect, blockRectangle(w.blocks[n]))}
  IN IF hits = {} THEN 0 ELSE CHOOSE n \in hits : \A m \in hits : m <= n

\* onGround: index of the first block, in any state, overlapping the
\* rectangle of height BLOCK_SIZE / 4 under the player's feet (0: null).
onGround(w) ==
  LET player == w.player
      pickRect == [x |-> player.pos.x - player.width \div 2,
                   y |-> player.pos.y,
                   width |-> player.width,
                   height |-> BLOCK_SIZE \div 4]
  IN FindIndex({n \in 1..Len(w.blocks) : checkAABB(pickRect, blockRectangle(w.blocks[n]))})

\* The horizontal movement the left and right channels ask for.
inputMovementX(player, controller) ==
  (IF controller.left > 0 THEN -player.speed ELSE 0)
    + (IF controller.right > 0 THEN player.speed ELSE 0)

\* The throw of the ground, jumping and falling cases, taken when
\* controller.b = 1 and player.blocks.shift() yields a block.
canThrow(w, controller) ==
  controller.b = 1 /\ Len(w.player.blocks) > 0

\* playerThrow reading the head of the carried list without taking it off.
playerThrowKeepList(w) ==
  LET player == w.player
      id == Head(player.blocks)
      n == FindIndex({m \in 1..Len(w.blocks) : w.blocks[m].id = id})
      shifted == player
      thrown(block) ==
        blockSetState(
          [block EXCEPT !.pos =
             setPosition((player.pos.x \div BLOCK_SIZE) * BLOCK_SIZE + BLOCK_SIZE \div 2,
                         player.pos.y, block.pos)],
          "thrown")
  IN [w EXCEPT !.player = playerSetState(shifted, "jumping"),
               !.blocks = IF n = 0 THEN @ ELSE [@ EXCEPT ![n] = thrown(@)]]

playerThrow(w) ==
  LET player == w.player
      id == Head(player.blocks)
      n == FindIndex({m \in 1..Len(w.blocks) : w.blocks[m].id = id})
      shifted == [player EXCEPT !.blocks = Tail(@)]
      thrown(block) ==
        blockSetState(
          [block EXCEPT !.pos =
             setPosition((player.pos.x \div BLOCK_SIZE) * BLOCK_SIZE + BLOCK_SIZE \div 2,
                         player.pos.y, block.pos)],
          "thrown")
  IN [w EXCEPT !.player = playerSetState(shifted, "jumping"),
               !.blocks = IF n = 0 THEN @ ELSE [@ EXCEPT ![n] = thrown(@)]]

\* playerGround lifting without the MAX_BLOCKS test.
playerGroundNoCapacity(w, controller) ==
  LET player == w.player
      inBlock == collideBlock(w, playerRectangle(player))
      movementX == inputMovementX(player, controller)
      fall == playerMoveAndCollide(w, 0, FALL_SPEED)
      w1 == fall.w
      groundBlock == onGround(w1)
      lift == controller.a = 1 /\ groundBlock # 0
      w2 == IF lift
            THEN [w1 EXCEPT !.blocks[groundBlock] = blockSetState(@, "lifted"),
                            !.player.blocks = Append(@, w1.blocks[groundBlock].id)]
            ELSE w1
      w3 == playerMoveAndCollide(w2, movementX, 0).w
      w4 == IF controller.up = 1
            THEN [w3 EXCEPT !.player = playerSetState(@, "jumping")]
            ELSE w3
  IN IF inBlock # 0 /\ w.blocks[inBlock].state = "ground"
     THEN [w EXCEPT !.player = playerSetState(@, "floating")]
     ELSE IF canThrow(w, controller) THEN playerThrow(w)
     ELSE IF fall.ok THEN [w1 EXCEPT !.player = playerSetState(@, "falling")]
     ELSE IF groundBlock = 0
     THEN [w4 EXCEPT !.player = playerSetState(@, "falling")]
     ELSE w4

\* playerGround without the escape from a ground block the player is inside.
playerGroundNoEscape(w, controller) ==
  LET player == w.player
      movementX == inputMovementX(player, controller)
      fall == playerMoveAndCollide(w, 0, FALL_SPEED)
      w1 == fall.w
      groundBlock == onGround(w1)
      lift == controller.a = 1 /\ Len(w1.player.blocks) < MAX_BLOCKS /\ groundBlock # 0
      w2 == IF lift
            THEN [w1 EXCEPT !.blocks[groundBlock] = blockSetState(@, "lifted"),
                            !.player.blocks = Append(@, w1.blocks[groundBlock].id)]
            ELSE w1
      w3 == playerMoveAndCollide(w2, movementX, 0).w
      w4 == IF controller.up = 1
            THEN [w3 EXCEPT !.player = playerSetState(@, "jumping")]
            ELSE w3
  IN IF canThrow(w, controller) THEN playerThrow(w)
     ELSE IF fall.ok THEN [w1 EXCEPT !.player = playerSetState(@, "falling")]
     ELSE IF groundBlock = 0
     THEN [w4 EXCEPT !.player = playerSetState(@, "falling")]
     ELSE w4

\* playerGround with the jump of the throw outside the test of the block
\* taken off the carried list.
playerGroundThrowEmpty(w, controller) ==
  LET player == w.player
      inBlock == collideBlock(w, playerRectangle(player))
      movementX == inputMovementX(player, controller)
      fall == playerMoveAndCollide(w, 0, FALL_SPEED)
      w1 == fall.w
      groundBlock == onGround(w1)
      lift == controller.a = 1 /\ Len(w1.player.blocks) < MAX_BLOCKS /\ groundBlock # 0
      w2 == IF lift
            THEN [w1 EXCEPT !.blocks[groundBlock] = blockSetState(@, "lifted"),
                            !.player.blocks = Append(@, w1.blocks[groundBlock].id)]
            ELSE w1
      w3 == playerMoveAndCollide(w2, movementX, 0).w
      w4 == IF controller.up = 1
            THEN [w3 EXCEPT !.player = playerSetState(@, "jumping")]
            ELSE w3
  IN IF inBlock # 0 /\ w.blocks[inBlock].state = "ground"
     THEN [w EXCEPT !.player = playerSetState(@, "floating")]
     ELSE IF canThrow(w, controller) THEN playerThrow(w)
     ELSE IF controller.b = 1 THEN [w EXCEPT !.player = playerSetState(@, "jumping")]
     ELSE IF fall.ok THEN [w1 EXCEPT !.player = playerSetState(@, "falling")]
     ELSE IF groundBlock = 0
     THEN [w4 EXCEPT !.player = playerSetState(@, "falling")]
     ELSE w4

playerGround(w, controller) ==
  LET player == w.player
      inBlock == collideBlock(w, playerRectangle(player))
      movementX == inputMovementX(player, controller)
      fall == playerMoveAndCollide(w, 0, FALL_SPEED)
      w1 == fall.w
      groundBlock == onGround(w1)
      lift == controller.a = 1 /\ Len(w1.player.blocks) < MAX_BLOCKS /\ groundBlock # 0
      w2 == IF lift
            THEN [w1 EXCEPT !.blocks[groundBlock] = blockSetState(@, "lifted"),
                            !.player.blocks = Append(@, w1.blocks[groundBlock].id)]
            ELSE w1
      w3 == playerMoveAndCollide(w2, movementX, 0).w
      w4 == IF controller.up = 1
            THEN [w3 EXCEPT !.player = playerSetState(@, "jumping")]
            ELSE w3
  IN IF inBlock # 0 /\ w.blocks[inBlock].state = "ground"
     THEN [w EXCEPT !.player = playerSetState(@, "floating")]
     ELSE IF canThrow(w, controller) THEN playerThrow(w)
     ELSE IF fall.ok THEN [w1 EXCEPT !.player = playerSetState(@, "falling")]
     ELSE IF groundBlock = 0
     THEN [w4 EXCEPT !.player = playerSetState(@, "falling")]
     ELSE w4

playerJumping(w, controller) ==
  LET player == w.player
      movementX == inputMovementX(player, controller)
      inBlock == collideBlock(w, playerRectangle(player))
      w1 == playerMoveAndCollide(w, movementX, 0).w
      up == playerMoveAndCollide(w1, 0, -((5 * PX * w1.player.jumpTime) \div 30))
      w2 == IF ~up.ok
            THEN [up.w EXCEPT !.player = playerSetState(@, "falling")]
            ELSE up.w
  IN IF inBlock # 0 /\ w.blocks[inBlock].state = "falling"
     THEN [w EXCEPT !.player = playerSetState(@, "floating")]
     ELSE IF canThrow(w, controller) THEN playerThrow(w)
     ELSE IF w2.player.jumpTime > 0
     THEN [w2 EXCEPT !.player.jumpTime = @ - 1]
     ELSE [w2 EXCEPT !.player = playerSetState(@, "falling")]

\* playerFalling jumping on an up edge whatever the timer reads.
playerFallingAnyJump(w, controller) ==
  LET player == w.player
      inBlock == collideBlock(w, playerRectangle(player))
      movementX == inputMovementX(player, controller)
      \* player.jumpTime--  (only its sign is ever read while falling: the
      \* count stops at -MaxFallCount)
      w0 == [w EXCEPT !.player.jumpTime = Max(@ - 1, -MaxFallCount)]
      fallMultiplier == IF controller.down > 0 THEN 2 ELSE 1
      fall == playerMoveAndCollide(w0, 0, FALL_SPEED * fallMultiplier)
      side == playerMoveAndCollide(fall.w, movementX, 0)
  IN IF inBlock # 0 /\ w.blocks[inBlock].state = "falling"
     THEN [w EXCEPT !.player = playerSetState(@, "floating")]
     ELSE IF canThrow(w, controller) THEN playerThrow(w)
     ELSE IF controller.up = 1
     THEN [w EXCEPT !.player = playerSetState(@, "jumping")]
     ELSE IF ~fall.ok
     THEN [fall.w EXCEPT !.player = playerSetState(@, "ground")]
     ELSE IF ~side.ok
     THEN [side.w EXCEPT !.player =
             playerSetState([@ EXCEPT !.wallriding = <<movementX>>], "wallride")]
     ELSE side.w

playerFalling(w, controller) ==
  LET player == w.player
      inBlock == collideBlock(w, playerRectangle(player))
      movementX == inputMovementX(player, controller)
      \* player.jumpTime--  (only its sign is ever read while falling: the
      \* count stops at -MaxFallCount)
      w0 == [w EXCEPT !.player.jumpTime = Max(@ - 1, -MaxFallCount)]
      fallMultiplier == IF controller.down > 0 THEN 2 ELSE 1
      fall == playerMoveAndCollide(w0, 0, FALL_SPEED * fallMultiplier)
      side == playerMoveAndCollide(fall.w, movementX, 0)
  IN IF inBlock # 0 /\ w.blocks[inBlock].state = "falling"
     THEN [w EXCEPT !.player = playerSetState(@, "floating")]
     ELSE IF canThrow(w, controller) THEN playerThrow(w)
     ELSE IF player.jumpTime > 0 /\ controller.up = 1
     THEN [w EXCEPT !.player = playerSetState(@, "jumping")]
     ELSE IF ~fall.ok
     THEN [fall.w EXCEPT !.player = playerSetState(@, "ground")]
     ELSE IF ~side.ok
     THEN [side.w EXCEPT !.player =
             playerSetState([@ EXCEPT !.wallriding = <<movementX>>], "wallride")]
     ELSE side.w

playerWallride(w, controller) ==
  LET player == w.player
      movementX == inputMovementX(player, controller)
      jt == IF movementX # 0 /\ sign(movementX) = sign(wallridingOr0(player))
            THEN 10 ELSE player.jumpTime - 1
      w0 == [w EXCEPT !.player.jumpTime = jt]
      down == playerMoveAndCollide(w0, 0, 1 * PX)
      push == playerMoveAndCollide(down.w, wallridingOr0(player), 0)
  IN IF jt <= 0
     THEN [w0 EXCEPT !.player = playerSetState(@, "falling")]
     ELSE IF controller.up = 1
     THEN [w0 EXCEPT !.player =
             playerSetState([@ EXCEPT !.wallriding = <<wallridingOr0(player) * (-1)>>],
                            "walljumping")]
     ELSE IF ~down.ok
     THEN [down.w EXCEPT !.player = playerSetState(@, "ground")]
     ELSE IF push.ok
     THEN [push.w EXCEPT !.player = playerSetState(@, "falling")]
     ELSE push.w

playerWalljumping(w, controller) ==
  LET player == w.player
      side == playerMoveAndCollide(w, wallridingOr0(player), 0)
      up == playerMoveAndCollide(side.w, 0, -((4 * PX * player.jumpTime) \div 30))
  IN IF ~side.ok
     THEN [side.w EXCEPT !.player =
             playerSetState([@ EXCEPT !.wallriding = <<-wallridingOr0(player)>>],
                            "wallride")]
     ELSE IF ~up.ok
     THEN [up.w EXCEPT !.player = playerSetState(@, "falling")]
     ELSE IF player.jumpTime > 0
     THEN [up.w EXCEPT !.player.jumpTime = @ - 1]
     ELSE [up.w EXCEPT !.player = playerSetState(@, "falling")]

\* A playerFloating that does not rise.
playerFloatingStill(w, controller) ==
  LET inBlock == collideBlock(w, playerRectangle(w.player))
  IN IF inBlock = 0
     THEN [w EXCEPT !.player = playerSetState(@, "jumping")]
     ELSE w

playerFloating(w, controller) ==
  LET inBlock == collideBlock(w, playerRectangle(w.player))
  IN IF inBlock = 0
     THEN [w EXCEPT !.player = playerSetState(@, "jumping")]
     ELSE [w EXCEPT !.player.pos = addPosition(0, -FLOAT_SPEED, @)]

playerUpdate(w, controller) ==
  CASE w.player.state = "ground" -> playerGround(w, controller)
    [] w.player.state = "jumping" -> playerJumping(w, controller)
    [] w.player.state = "falling" -> playerFalling(w, controller)
    [] w.player.state = "wallride" -> playerWallride(w, controller)
    [] w.player.state = "walljumping" -> playerWalljumping(w, controller)
    [] w.player.state = "floating" -> playerFloating(w, controller)

-----------------------------------------------------------------------------
(* Construction, the row spawner and the sort *)

initialState ==
  [mode |-> "intro",
   player |-> [pos |-> [x |-> (7 * BLOCK_SIZE) \div 2, y |-> 0, ix |-> 3, iy |-> 0],
               width |-> BLOCK_SIZE \div 2,
               height |-> (BLOCK_SIZE * 11) \div 10,
               state |-> "falling",
               jumpTime |-> 0,
               speed |-> 2 * PX,
               wallriding |-> <<>>,
               blocks |-> <<>>],
   camera |-> [pos |-> [x |-> (GRID_WIDTH * BLOCK_SIZE) \div 2,
                        y |-> BLOCK_SIZE * 3, ix |-> 0, iy |-> 0]],
   blocks |-> <<>>,
   nextBlockId |-> 0,
   bottomRow |-> 5]

createBlock(w, ix, iy, color) ==
  [w EXCEPT !.nextBlockId = @ + 1,
            !.blocks = Append(@, [id |-> w.nextBlockId,
                                  pos |-> [x |-> ((2 * ix + 1) * BLOCK_SIZE) \div 2,
                                           y |-> iy * BLOCK_SIZE,
                                           ix |-> ix, iy |-> iy],
                                  color |-> color,
                                  state |-> "idle",
                                  timer |-> 0,
                                  star |-> FALSE,
                                  tweenRect |-> NoRect])]

\* The colours randomBlockColor can return: blockColors[0..2].
randomBlockColor == {blockColors[i] : i \in 1..3}

\* The outcomes of the Math.random() calls of one createBlockRow: draws[i+1]
\* is "none" when column i gets no block and its colour otherwise; roll is
\* Math.floor(Math.random() * GRID_WIDTH * 2).
RECURSIVE fillRow(_, _, _, _)
fillRow(w, row, draws, i) ==
  IF i >= GRID_WIDTH THEN w
  ELSE fillRow(IF draws[i + 1] # "none" THEN createBlock(w, i, row, draws[i + 1]) ELSE w,
               row, draws, i + 1)

createBlockRow(w, draws, roll) ==
  LET row == w.bottomRow + 1
      w1 == fillRow([w EXCEPT !.bottomRow = row], row, draws, 0)
      \* state.blocks.at(-ix): at(-0) is the first element
      n == IF roll = 0 THEN 1 ELSE Len(w1.blocks) - roll + 1
  IN IF row % 6 = 5 /\ n >= 1 /\ n <= Len(w1.blocks)
     THEN [w1 EXCEPT !.blocks[n].star = TRUE]
     ELSE w1

\* A sort that is not stable: the blocks of one row come out reversed.
RECURSIVE sortRowsUnstable(_, _)
sortRowsUnstable(s, rows) ==
  IF rows = {} THEN <<>>
  ELSE LET m == CHOOSE v \in rows : \A u \in rows : u <= v
           row == SelectSeq(s, LAMBDA b : b.pos.iy = m)
       IN [i \in 1..Len(row) |-> row[Len(row) + 1 - i]] \o sortRowsUnstable(s, rows \ {m})

\* state.blocks.sort((a, b) => b.pos.iy - a.pos.iy): a stable sort, rows
\* descending, the blocks of one row in their previous order.
RECURSIVE sortRows(_, _)
sortRows(s, rows) ==
  IF rows = {} THEN <<>>
  ELSE LET m == CHOOSE v \in rows : \A u \in rows : u <= v
       IN SelectSeq(s, LAMBDA b : b.pos.iy = m) \o sortRows(s, rows \ {m})

sortBlocks(s) == sortRows(s, {s[i].pos.iy : i \in 1..Len(s)})

\* updateIntro leaving the intro whatever the a channel reads.
updateIntroAnyKey(w, controller) ==
  [w EXCEPT !.mode = "playing", !.camera.pos.y = 0]

updateIntro(w, controller) ==
  LET w1 == [w EXCEPT !.camera.pos.y = @ + 1 * PX]
  IN IF controller.a > 0
     THEN [w1 EXCEPT !.mode = "playing", !.camera.pos.y = 0]
     ELSE w1

\* updatePlaying after the block loop: the scan and the camera.
solveAndFollow(w) ==
  LET w1 == checkSolutions(w)
  IN [w1 EXCEPT !.camera.pos = setPosition(@.x, w1.player.pos.y, @)]

\* spawnNeeded keeping one row less below the player.
spawnNeededLate(w) == w.player.pos.iy + BLOCK_ROW_BUFFER - 1 > w.bottomRow

spawnNeeded(w) == w.player.pos.iy + BLOCK_ROW_BUFFER > w.bottomRow

-----------------------------------------------------------------------------
(* Environment: the Math.random() outcomes of the spawner and the keyboard *)

MaxIntroTicks == 2
MaxFree == 1
MaxSpawned == 1
NumRuns == 7

Keys == {"up", "down", "left", "right", "a", "b"}

\* The controller read by the next step: step() has incremented every
\* channel that was down (2 stands for every count above 1), then onKeyUp
\* and onKeyDown set the channels of the keys released and pressed since.
\* keys is the set of keys down at the step; fresh tells that the keys that
\* were already down have been released and pressed again.
press(controller, keys, fresh) ==
  [k \in Keys |-> IF k \notin keys THEN 0
                  ELSE IF fresh \/ controller[k] = 0 THEN 1 ELSE 2]

NoKeys == [k \in Keys |-> 0]

Hold(keys, n) == [i \in 1..n |-> keys]

\* One row of draws from the set of its occupied columns.
Draws(cells) ==
  [i \in 1..GRID_WIDTH |->
     IF \E c \in cells : c[1] = i - 1
     THEN (CHOOSE c \in cells : c[1] = i - 1)[2]
     ELSE "none"]

EmptyRow == Draws({})

\* The rows 6..25 drawn during construction, per run: <<row, column, colour>>.
Layout(r) ==
  CASE r = 1 -> {<<6, 3, "red">>,
                 <<7, 3, "red">>, <<7, 4, "red">>,
                 <<8, 3, "red">>,
                 <<9, 3, "red">>}
    [] r = 2 -> {<<6, 3, "red">>, <<6, 4, "red">>,
                 <<7, 2, "red">>, <<7, 3, "red">>, <<7, 4, "red">>,
                 <<8, 2, "green">>, <<8, 3, "blue">>, <<8, 4, "red">>, <<8, 5, "green">>}
    [] r = 3 -> {<<6, 3, "green">>, <<6, 4, "red">>,
                 <<7, 1, "red">>, <<7, 3, "red">>,
                 <<8, 2, "green">>,
                 <<11, 3, "blue">>, <<11, 4, "green">>}
    [] r = 4 -> {<<6, 3, "green">>, <<6, 4, "red">>,
                 <<7, 3, "blue">>, <<7, 4, "green">>, <<7, 6, "red">>, <<7, 7, "red">>,
                 <<8, 5, "blue">>,
                 <<11, 6, "blue">>, <<11, 7, "green">>}
    [] r = 5 -> {<<6, 3, "green">>, <<6, 4, "red">>,
                 <<7, 3, "blue">>, <<7, 4, "red">>, <<7, 6, "red">>,
                 <<8, 5, "blue">>,
                 <<11, 4, "blue">>, <<11, 5, "green">>}
    [] r = 6 -> {<<6, 3, "red">>, <<6, 4, "red">>,
                 <<7, 2, "red">>, <<7, 3, "red">>, <<7, 4, "red">>,
                 <<8, 2, "green">>, <<8, 3, "blue">>, <<8, 4, "red">>, <<8, 5, "green">>}
    [] OTHER -> {<<13, 0, "red">>, <<13, 1, "green">>, <<13, 2, "blue">>, <<13, 3, "red">>}

LayoutRow(r, row) == Draws({<<c[2], c[3]>> : c \in {d \in Layout(r) : d[1] = row}})

\* The star roll of the construction rows, per run.
LayoutRoll(r) == r - 1

\* The keys down at each playing step of a run.
Script(r) ==
  CASE r = 1 -> Hold({"down"}, 34) \o Hold({"a"}, 1) \o Hold({"down", "right"}, 7)
                \o Hold({"right"}, 4) \o Hold({"a"}, 1) \o Hold({}, 1) \o Hold({"a"}, 1)
                \o Hold({"b"}, 1) \o Hold({}, 1) \o Hold({"b"}, 1) \o Hold({}, 1)
                \o Hold({"b"}, 1) \o Hold({}, 36)
    [] r = 2 -> Hold({"down"}, 33) \o Hold({"down", "right"}, 15) \o Hold({"a"}, 1)
                \o Hold({}, 1) \o Hold({"a"}, 1) \o Hold({"down"}, 8) \o Hold({"a"}, 1)
                \o Hold({}, 1) \o Hold({"a"}, 1) \o Hold({"down"}, 9) \o Hold({"a"}, 1)
                \o Hold({}, 1) \o Hold({"b"}, 1) \o Hold({"right"}, 10) \o Hold({"b"}, 1)
                \o Hold({}, 8) \o Hold({"b"}, 1) \o Hold({}, 36)
    [] r = 3 -> Hold({"down"}, 33) \o Hold({"down", "right"}, 15) \o Hold({"a"}, 1)
                \o Hold({}, 1) \o Hold({"a"}, 1) \o Hold({"down"}, 8) \o Hold({"b"}, 1)
                \o Hold({}, 50) \o Hold({"left"}, 33) \o Hold({"b"}, 1)
                \o Hold({"right"}, 41) \o Hold({"down"}, 40) \o Hold({"left"}, 1)
                \o Hold({}, 30)
    [] r = 4 -> Hold({"down"}, 33) \o Hold({"down", "right"}, 15) \o Hold({"a"}, 1)
                \o Hold({}, 1) \o Hold({"a"}, 1) \o Hold({"down"}, 8) \o Hold({"a"}, 1)
                \o Hold({"right"}, 37) \o Hold({"right", "up"}, 1) \o Hold({"right"}, 60)
                \o Hold({"b"}, 1) \o Hold({}, 8) \o Hold({"left"}, 34) \o Hold({"b"}, 1)
                \o Hold({"right"}, 20) \o Hold({}, 10) \o Hold({"down"}, 50)
                \o Hold({"right"}, 8) \o Hold({}, 9) \o Hold({"left"}, 1) \o Hold({}, 9)
                \o Hold({"b"}, 1) \o Hold({}, 12)
    [] r = 5 -> Hold({"down"}, 33) \o Hold({"down", "right"}, 15) \o Hold({"a"}, 1)
                \o Hold({}, 1) \o Hold({"a"}, 1) \o Hold({"down"}, 8) \o Hold({"a"}, 1)
                \o Hold({"right"}, 1) \o Hold({"b"}, 1) \o Hold({}, 60)
                \o Hold({"right"}, 40) \o Hold({"b"}, 1) \o Hold({"left"}, 30)
                \o Hold({}, 40) \o Hold({"b"}, 1) \o Hold({}, 30)
    [] r = 6 -> Hold({"down"}, 33) \o Hold({"down", "right"}, 15) \o Hold({"a"}, 1)
                \o Hold({}, 1) \o Hold({"a"}, 1) \o Hold({"down"}, 8) \o Hold({"a"}, 1)
                \o Hold({}, 1) \o Hold({"a"}, 1) \o Hold({"down"}, 9) \o Hold({"a"}, 1)
                \o Hold({}, 1) \o Hold({"b"}, 1) \o Hold({"right"}, 10) \o Hold({"b"}, 1)
                \o Hold({}, 8) \o Hold({"b"}, 1) \o Hold({}, 35) \o Hold({"b"}, 1)
                \o Hold({}, 1)
    [] OTHER -> Hold({"left"}, 115) \o Hold({"left", "up"}, 1) \o Hold({}, 31)
                \o Hold({"left"}, 34) \o Hold({}, 14)

\* The keys a step off the script can find down.
FreeKeys ==
  {{}} \cup {{k} : k \in Keys} \cup {{"left", "up"}, {"right", "up"}, {"a", "b"}}

\* The draws of a row spawned during play, and its star rolls.
SpawnDraws == {EmptyRow, Draws({<<1, "green">>, <<6, "blue">>})}
StarRolls == {0, 1, 15}

RECURSIVE construct(_, _, _)
construct(w, r, n) ==
  IF n = 0 THEN w
  ELSE construct(createBlockRow(w, LayoutRow(r, w.bottomRow + 1), LayoutRoll(r)), r, n - 1)

-----------------------------------------------------------------------------
(* The stepped program *)

VARIABLES
  state,       \* the GameState object
  controller,  \* the Controller object, as the current step reads it
  pc,          \* the statement of updatePlaying the current step is at
  cursor,      \* the index the block loop's iterator is at
  run,         \* which layout and script this behaviour follows
  step,        \* playing steps completed
  free,        \* steps taken off the script
  tickStart,   \* history: state when the current playing step began
  scanned,     \* history: state as the last scan found it
  entered,     \* history: <<id, step>> of the blocks' last entry into solving
  fell         \* history: the player's last entry into falling (from, at)

vars == <<state, controller, pc, cursor, run, step, free, tickStart, scanned, entered,
          fell>>

\* No entry into falling yet: initialState has the player falling.
NeverFell == [from |-> "none", at |-> 0]

Init ==
  /\ run \in 1..NumRuns
  /\ state = construct(initialState, run, BLOCK_ROW_BUFFER)
  /\ controller = NoKeys
  /\ pc = "playerUpdate"
  /\ cursor = 1
  /\ step = 0
  /\ free = 0
  /\ tickStart = state
  /\ scanned = state
  /\ entered = {}
  /\ fell = NeverFell

\* updateMode in mode intro.
UpdateIntro ==
  /\ state.mode = "intro"
  /\ \E keys \in {{}, {"a"}} :
       /\ keys = {} => state.camera.pos.y < (3 * BLOCK_SIZE) + MaxIntroTicks * PX
       /\ controller' = press(controller, keys, FALSE)
       /\ state' = updateIntro(state, controller')
  /\ tickStart' = state'
  /\ scanned' = state'
  /\ UNCHANGED <<pc, cursor, run, step, free, entered, fell>>

\* updatePlaying: playerUpdate(state, state.player, controller), reading the
\* controller c.
PlayerStep(c, f) ==
  /\ controller' = c
  /\ free' = f
  /\ state' = playerUpdate(state, c)
  /\ tickStart' = state
  /\ pc' = "blockUpdate"
  /\ cursor' = 1
  /\ fell' = IF state.player.state # "falling" /\ state'.player.state = "falling"
             THEN [from |-> state.player.state, at |-> step + 1]
             ELSE fell
  /\ UNCHANGED <<run, step, scanned, entered>>

\* The controller of a playing step is the script's, or any of the free ones
\* for at most MaxFree steps, after which the behaviour ends.
PlayerUpdate ==
  /\ state.mode = "playing"
  /\ pc = "playerUpdate"
  /\ \/ /\ free = 0
        /\ step < Len(Script(run))
        /\ PlayerStep(press(controller, Script(run)[step + 1], FALSE), 0)
     \/ /\ free < MaxFree
        /\ \E keys \in FreeKeys, fresh \in BOOLEAN :
             PlayerStep(press(controller, keys, fresh), free + 1)

\* updatePlaying: one turn of for (const block of state.blocks).  The
\* iterator walks the live array by index, so after a splice at the cursor
\* the block that moved into that index is not visited.
BlockUpdate ==
  /\ pc = "blockUpdate"
  /\ cursor <= Len(state.blocks)
  /\ state' = blockUpdate(state, cursor)
  /\ cursor' = cursor + 1
  /\ UNCHANGED <<controller, pc, run, step, free, tickStart, scanned, entered, fell>>

\* updatePlaying: the loop is over; checkSolutions and the camera.
CheckSolutions ==
  /\ pc = "blockUpdate"
  /\ cursor > Len(state.blocks)
  /\ state' = solveAndFollow(state)
  /\ scanned' = state
  /\ LET ids == {state.blocks[n].id : n \in 1..Len(state.blocks)}
         new == {state.blocks[n].id : n \in {m \in 1..Len(state.blocks) :
                    /\ state.blocks[m].state # "solving"
                    /\ state'.blocks[m].state = "solving"}}
     IN entered' = {e \in entered : e[1] \in ids \ new} \cup {<<id, step + 1>> : id \in new}
  /\ pc' = "createBlockRow"
  /\ UNCHANGED <<controller, cursor, run, step, free, tickStart, fell>>

\* updatePlaying: one turn of the while loop that keeps BLOCK_ROW_BUFFER
\* rows below the player.
CreateBlockRow ==
  /\ pc = "createBlockRow"
  /\ spawnNeeded(state)
  /\ \E draws \in SpawnDraws, roll \in StarRolls :
       /\ draws # EmptyRow => state.nextBlockId < Cardinality(Layout(run)) + MaxSpawned
       /\ state' = createBlockRow(state, draws, roll)
  /\ UNCHANGED <<controller, pc, cursor, run, step, free, tickStart, scanned, entered, fell>>

\* updatePlaying: the while loop is over; the sort ends the step.
SortBlocks ==
  /\ pc = "createBlockRow"
  /\ ~spawnNeeded(state)
  /\ state' = [state EXCEPT !.blocks = sortBlocks(@)]
  /\ pc' = "playerUpdate"
  /\ step' = step + 1
  /\ UNCHANGED <<controller, cursor, run, free, tickStart, scanned, entered, fell>>

Next ==
  \/ UpdateIntro
  \/ PlayerUpdate
  \/ BlockUpdate
  \/ CheckSolutions
  \/ CreateBlockRow
  \/ SortBlocks

Spec == Init /\ [][Next]_vars

-----------------------------------------------------------------------------
(* Vocabulary of the properties *)

\* A playing step has just completed (the sort has run).
TickEnd == state.mode = "playing" /\ pc = "playerUpdate" /\ step > 0

\* playerUpdate has just run; tickStart is the state it started from.
AfterPlayer == pc = "blockUpdate" /\ cursor = 1

\* checkSolutions has just run on the state scanned; the blocks it scanned
\* are still at their indices (rows spawned since are appended after them).
AfterScan == pc = "createBlockRow"

HasId(bs, id) == \E n \in 1..Len(bs) : bs[n].id = id

ById(bs, id) == bs[CHOOSE n \in 1..Len(bs) : bs[n].id = id]

InWindow(w, iy) == iy >= w.player.pos.iy - BLOCK_ROW_BUFFER /\ iy <= w.bottomRow

\* Some block of colour color, in one of the states sts, has the cell.
CellHolds(w, ix, iy, color, sts) ==
  \E n \in 1..Len(w.blocks) :
    /\ w.blocks[n].pos.ix = ix
    /\ w.blocks[n].pos.iy = iy
    /\ w.blocks[n].color = color
    /\ w.blocks[n].state \in sts

WindowRows(w) == {w.blocks[n].pos.iy : n \in 1..Len(w.blocks)} \cap
                 (w.player.pos.iy - BLOCK_ROW_BUFFER .. w.bottomRow)

\* Block b of w lies in a line of three or more contiguous cells of the scan
\* window, along its row or its column, each holding a block of its colour in
\* one of the states sts, one of them in a state of rest.
InRun(w, b, sts, rest) ==
     /\ b.state \in sts
     /\ InWindow(w, b.pos.iy)
     /\ \/ \E lo \in 0..GRID_WIDTH - 1, hi \in 0..GRID_WIDTH - 1 :
             /\ lo <= b.pos.ix /\ b.pos.ix <= hi /\ hi - lo >= 2
             /\ \A x \in lo..hi : CellHolds(w, x, b.pos.iy, b.color, sts)
             /\ \E x \in lo..hi : CellHolds(w, x, b.pos.iy, b.color, rest)
        \/ \E lo \in WindowRows(w), hi \in WindowRows(w) :
             /\ lo <= b.pos.iy /\ b.pos.iy <= hi /\ hi - lo >= 2
             /\ \A y \in lo..hi : CellHolds(w, b.pos.ix, y, b.color, sts)
             /\ \E y \in lo..hi : CellHolds(w, b.pos.ix, y, b.color, rest)

Solvable == {"idle", "ground", "solving"}
Resting == {"ground", "solving"}
Pickable == {"idle", "ground", "falling", "solving"}

\* Block i is the block the scan records for its cell: the last block of the
\* collection at that cell.
Recorded(w, i) ==
  /\ InWindow(w, w.blocks[i].pos.iy)
  /\ \A n \in 1..Len(w.blocks) :
       (w.blocks[n].pos.ix = w.blocks[i].pos.ix /\ w.blocks[n].pos.iy = w.blocks[i].pos.iy)
         => n <= i

\* w with only the recorded block of every cell.
RecordedOnly(w) ==
  [w EXCEPT !.blocks = SelectSeq(w.blocks, LAMBDA b :
      /\ InWindow(w, b.pos.iy)
      /\ \A n \in 1..Len(w.blocks) :
           (w.blocks[n].pos.ix = b.pos.ix /\ w.blocks[n].pos.iy = b.pos.iy
              /\ w.blocks[n].id # b.id)
             => \E m \in 1..Len(w.blocks) :
                  w.blocks[m].id = b.id /\ n < m)]

\* The probe rectangle under the player's feet.
FeetRect(player) ==
  [x |-> player.pos.x - player.width \div 2, y |-> player.pos.y,
   width |-> player.width, height |-> BLOCK_SIZE \div 4]

Floor64(n) == n \div BLOCK_SIZE

-----------------------------------------------------------------------------
(* C1 *)

\* C1: at the end of every playing step no two blocks in a pickable state
\* (idle, ground, falling, solving) have overlapping rectangles.
C1_NoPickableOverlap ==
  TickEnd =>
    \A i \in 1..Len(state.blocks), j \in 1..Len(state.blocks) :
      (i < j /\ blockIsPickable(state.blocks[i]) /\ blockIsPickable(state.blocks[j]))
        => ~checkAABB(blockRectangle(state.blocks[i]), blockRectangle(state.blocks[j]))

-----------------------------------------------------------------------------
(* C2 *)

\* C2: in every state the grid indices of the player and of every block are
\* the floors of their coordinates over BLOCK_SIZE.
C2_GridIndex ==
  /\ state.player.pos.ix = Floor64(state.player.pos.x)
  /\ state.player.pos.iy = Floor64(state.player.pos.y)
  /\ \A n \in 1..Len(state.blocks) :
       /\ state.blocks[n].pos.ix = Floor64(state.blocks[n].pos.x)
       /\ state.blocks[n].pos.iy = Floor64(state.blocks[n].pos.y)

\* A thrown block has just been settled on the block under it, off the row
\* it was thrown at, while another block is carried and tracks the player.
C2_Witness ==
  /\ pc = "blockUpdate" /\ cursor > 1 /\ cursor - 1 <= Len(state.blocks)
  /\ LET b == state.blocks[cursor - 1]
     IN /\ b.state = "ground" /\ b.timer = 0
        /\ HasId(tickStart.blocks, b.id)
        /\ ById(tickStart.blocks, b.id).state \in {"lifted", "thrown"}
        /\ b.pos.y % BLOCK_SIZE = 0
        /\ b.pos.iy # ById(tickStart.blocks, b.id).pos.iy
  /\ \E n \in 1..Len(state.blocks) : state.blocks[n].state = "lifted"

-----------------------------------------------------------------------------
(* C3 *)

\* C3: the carried list never holds more than MAX_BLOCKS blocks, and a lift
\* (a channel at 1, no throw) by a player on the ground who carries
\* MAX_BLOCKS blocks and has a pickable block underfoot leaves the carried
\* list and the state of every block as they were.
C3_LiftAtCapacity ==
  /\ Len(state.player.blocks) <= MAX_BLOCKS
  /\ (/\ AfterPlayer
      /\ tickStart.player.state = "ground"
      /\ controller.a = 1
      /\ controller.b # 1
      /\ Len(tickStart.player.blocks) = MAX_BLOCKS
      /\ \E n \in 1..Len(tickStart.blocks) :
           /\ blockIsPickable(tickStart.blocks[n])
           /\ checkAABB(FeetRect(tickStart.player), blockRectangle(tickStart.blocks[n])))
     => /\ state.player.blocks = tickStart.player.blocks
        /\ \A n \in 1..Len(state.blocks) :
             state.blocks[n].state = tickStart.blocks[n].state

\* The lift was asked for at capacity over a pickable block, and nothing
\* was lifted.
C3_Witness ==
  /\ AfterPlayer
  /\ tickStart.player.state = "ground"
  /\ state.player.state = "ground"
  /\ controller.a = 1
  /\ controller.b # 1
  /\ Len(tickStart.player.blocks) = MAX_BLOCKS
  /\ Len(state.player.blocks) = MAX_BLOCKS
  /\ \E n \in 1..Len(state.blocks) :
       /\ blockIsPickable(tickStart.blocks[n])
       /\ checkAABB(FeetRect(tickStart.player), blockRectangle(tickStart.blocks[n]))
       /\ state.blocks[n] = tickStart.blocks[n]

-----------------------------------------------------------------------------
(* C4 *)

\* C4: every block that, at the scan of a step, is in a line of three or
\* more contiguous cells of the window holding solvable blocks of one colour,
\* one of them ground or solving, is in state solving at the end of the step.
C4_MatchComplete ==
  TickEnd =>
    \A n \in 1..Len(scanned.blocks) :
      InRun(scanned, scanned.blocks[n], Solvable, Resting)
        => /\ HasId(state.blocks, scanned.blocks[n].id)
           /\ ById(state.blocks, scanned.blocks[n].id).state = "solving"

-----------------------------------------------------------------------------
(* C5 *)

\* C5: a block whose state the scan changes has entered solving and lies in
\* a line of three or more contiguous cells of the window holding solvable
\* blocks of its colour, one of them ground or solving; every other block
\* keeps its state.
C5_MatchSound ==
  AfterScan =>
    \A n \in 1..Len(scanned.blocks) :
      state.blocks[n].state # scanned.blocks[n].state
        => /\ state.blocks[n].state = "solving"
           /\ InRun(scanned, scanned.blocks[n], Solvable, Resting)

\* The scan has just put an idle block and a ground block into solving and
\* left another block alone.
C5_Witness ==
  /\ AfterScan
  /\ \E n \in 1..Len(scanned.blocks) :
       scanned.blocks[n].state = "idle" /\ state.blocks[n].state = "solving"
  /\ \E n \in 1..Len(scanned.blocks) :
       scanned.blocks[n].state = "ground" /\ state.blocks[n].state = "solving"
  /\ \E n \in 1..Len(scanned.blocks) :
       /\ scanned.blocks[n].state \in Solvable
       /\ state.blocks[n].state = scanned.blocks[n].state
       /\ ~InRun(scanned, scanned.blocks[n], Solvable, Resting)

-----------------------------------------------------------------------------
(* C6 *)

\* C6: a block that entered solving at step t and is still solving is gone
\* from the collection by the end of step t + SOLVE_TIME.
C6_SolvedRemoved ==
  TickEnd =>
    \A n \in 1..Len(state.blocks) :
      state.blocks[n].state = "solving"
        => \A e \in entered :
             e[1] = state.blocks[n].id => step < e[2] + SOLVE_TIME

-----------------------------------------------------------------------------
(* C7 *)

-----------------------------------------------------------------------------
(* C8 *)

\* C8: the scan leaves a block that is already solving exactly as it was
\* (state, timer, tweenRect), and from the start to the end of a step the
\* timer of a block that stays solving does not decrease.
C8_SolvingIdempotent ==
  /\ AfterScan =>
       \A n \in 1..Len(scanned.blocks) :
         scanned.blocks[n].state = "solving" => state.blocks[n] = scanned.blocks[n]
  /\ TickEnd =>
       \A n \in 1..Len(state.blocks) :
         (/\ state.blocks[n].state = "solving"
          /\ HasId(tickStart.blocks, state.blocks[n].id)
          /\ ById(tickStart.blocks, state.blocks[n].id).state = "solving")
           => state.blocks[n].timer >= ById(tickStart.blocks, state.blocks[n].id).timer

\* The scan has just met again a line of blocks that were already solving,
\* their timers running.
C8_Witness ==
  /\ AfterScan
  /\ \E n \in 1..Len(scanned.blocks) :
       /\ scanned.blocks[n].state = "solving"
       /\ scanned.blocks[n].timer > 0
       /\ scanned.blocks[n].timer < SOLVE_TIME
       /\ Recorded(scanned, n)
       /\ InRun(RecordedOnly(scanned), scanned.blocks[n], Solvable, {"solving"})
       /\ state.blocks[n] = scanned.blocks[n]

-----------------------------------------------------------------------------
(* C9 *)

\* A ground block carries the player: its top is at the player's feet and it
\* lies under the player's width.
RestsOn(player, block) ==
  /\ block.state = "ground"
  /\ block.pos.y - BLOCK_SIZE = player.pos.y
  /\ block.pos.x - BLOCK_SIZE \div 2 < player.pos.x + player.width \div 2
  /\ block.pos.x + BLOCK_SIZE \div 2 > player.pos.x - player.width \div 2

\* C9 as stated: a player who starts a step in state ground, resting on top
\* of a ground block, is floating at the end of the step.
C9_RestingFloats ==
  TickEnd =>
    ((/\ tickStart.player.state = "ground"
      /\ \E n \in 1..Len(tickStart.blocks) :
           RestsOn(tickStart.player, tickStart.blocks[n]))
       => state.player.state = "floating")

\* The first block of the collection whose rectangle overlaps the player's.
FirstOverlap(w, n) ==
  /\ checkAABB(playerRectangle(w.player), blockRectangle(w.blocks[n]))
  /\ \A m \in 1..(n - 1) :
       ~checkAABB(playerRectangle(w.player), blockRectangle(w.blocks[m]))

\* C9 amended: a player who starts a step in state ground with the player
\* rectangle overlapping a block's, the first such block of the collection
\* being in state ground, is floating after the player's update and at the
\* end of the step, with jumpTime FLOATING_TIME set by the update.
C9_OverlapFloats ==
  (/\ AfterPlayer \/ TickEnd
   /\ tickStart.player.state = "ground"
   /\ \E n \in 1..Len(tickStart.blocks) :
        FirstOverlap(tickStart, n) /\ tickStart.blocks[n].state = "ground")
    => /\ state.player.state = "floating"
       /\ AfterPlayer => state.player.jumpTime = FLOATING_TIME

\* A ground block has come to overlap a player standing in state ground,
\* and the step after has left the player floating.
C9_Witness ==
  /\ TickEnd
  /\ tickStart.player.state = "ground"
  /\ \E n \in 1..Len(tickStart.blocks) :
       FirstOverlap(tickStart, n) /\ tickStart.blocks[n].state = "ground"
  /\ state.player.state = "floating"

-----------------------------------------------------------------------------
(* C10 *)

-----------------------------------------------------------------------------
(* C11 *)

\* C11: every block that is in the collection when the block loop of a step
\* begins is updated in that step: when the loop is over it has made as many
\* turns as there were blocks, also in steps that remove blocks.
C11_EveryBlockUpdated ==
  (pc = "blockUpdate" /\ cursor > Len(state.blocks))
    => cursor - 1 = Len(tickStart.blocks)

-----------------------------------------------------------------------------
(* C12 *)

\* The index of the block with this id.
IndexOfId(bs, id) == CHOOSE n \in 1..Len(bs) : bs[n].id = id

\* C12: at the end of every playing step the collection is in order of
\* non-increasing row, the rows spawned in the step included, and the sort
\* that ends the step keeps every block and leaves the blocks of one row in
\* the order they had before it.
C12_SortedStable ==
  /\ [](TickEnd =>
          \A i \in 1..Len(state.blocks), j \in 1..Len(state.blocks) :
            i < j => state.blocks[i].pos.iy >= state.blocks[j].pos.iy)
  /\ [][(pc = "createBlockRow" /\ pc' = "playerUpdate") =>
          /\ Len(state'.blocks) = Len(state.blocks)
          /\ \A n \in 1..Len(state.blocks) :
               /\ HasId(state'.blocks, state.blocks[n].id)
               /\ ById(state'.blocks, state.blocks[n].id) = state.blocks[n]
          /\ \A i \in 1..Len(state'.blocks), j \in 1..Len(state'.blocks) :
               (i < j /\ state'.blocks[i].pos.iy = state'.blocks[j].pos.iy)
                 => IndexOfId(state.blocks, state'.blocks[i].id)
                      < IndexOfId(state.blocks, state'.blocks[j].id)]_vars

\* A row spawned in the step has been sorted to the front of the collection,
\* ahead of rows that hold several blocks each, some of them moved in the
\* step.
C12_Witness ==
  /\ TickEnd
  /\ Len(state.blocks) > 2
  /\ ~HasId(tickStart.blocks, state.blocks[1].id)
  /\ state.blocks[1].pos.iy = state.blocks[2].pos.iy
  /\ ~HasId(tickStart.blocks, state.blocks[2].id)
  /\ \E i \in 1..Len(state.blocks), j \in 1..Len(state.blocks) :
       /\ i < j
       /\ state.blocks[i].pos.iy = state.blocks[j].pos.iy
       /\ HasId(tickStart.blocks, state.blocks[i].id)
       /\ HasId(tickStart.blocks, state.blocks[j].id)

-----------------------------------------------------------------------------
(* C13 *)

\* C13: a player's update that starts in state ground, jumping or falling
\* with the b channel at 1 and a block carried takes the head of the carried
\* list off it, sets that block at the centre of the player's column and at
\* the player's y, in state thrown, and the player in state jumping; the
\* other carried blocks stay carried, lifted and in their order.
C13_ThrowHead ==
  (/\ AfterPlayer
   /\ controller.b = 1
   /\ tickStart.player.state \in {"ground", "jumping", "falling"}
   /\ Len(tickStart.player.blocks) > 0)
    => LET id == Head(tickStart.player.blocks)
       IN /\ state.player.blocks = Tail(tickStart.player.blocks)
          /\ state.player.state = "jumping"
          /\ HasId(state.blocks, id)
          /\ ById(state.blocks, id).state = "thrown"
          /\ ById(state.blocks, id).pos.x
               = Floor64(tickStart.player.pos.x) * BLOCK_SIZE + BLOCK_SIZE \div 2
          /\ ById(state.blocks, id).pos.y = tickStart.player.pos.y
          /\ \A n \in 1..Len(state.player.blocks) :
               /\ HasId(state.blocks, state.player.blocks[n])
               /\ ById(state.blocks, state.player.blocks[n]).state = "lifted"

-----------------------------------------------------------------------------
(* C14 *)

\* The player as the lift statement of the step finds it: for a player on
\* the ground, after the attempt to fall.
AtLift(w) ==
  IF w.player.state = "ground" THEN playerMoveAndCollide(w, 0, FALL_SPEED).w.player
  ELSE w.player

\* No block lies under the feet of the player of w.
NothingUnderfoot(w) ==
  \A n \in 1..Len(w.blocks) :
    ~checkAABB(FeetRect(AtLift(w)), blockRectangle(w.blocks[n]))

\* C14: a player's update with the b channel at 1 and nothing carried gives
\* the state it gives with the b channel at 0 or at 2, and one with the a
\* channel at 1 and no block underfoot the state it gives with the a channel
\* at 0 or at 2: player, carried list and every block.
C14_SilentNoOp ==
  AfterPlayer =>
    /\ (controller.b = 1 /\ Len(tickStart.player.blocks) = 0)
         => \A v \in {0, 2} :
              state = playerUpdate(tickStart, [controller EXCEPT !.b = v])
    /\ (controller.a = 1 /\ NothingUnderfoot(tickStart))
         => \A v \in {0, 2} :
              state = playerUpdate(tickStart, [controller EXCEPT !.a = v])

\* A player standing on a block, carrying nothing, has been updated with the
\* b channel at 1 and is still on the ground, no block thrown.
C14_Witness ==
  /\ AfterPlayer
  /\ tickStart.player.state = "ground"
  /\ controller.b = 1
  /\ Len(tickStart.player.blocks) = 0
  /\ ~NothingUnderfoot(tickStart)
  /\ state.player.state = "ground"
  /\ \A n \in 1..Len(state.blocks) : state.blocks[n].state # "thrown"

-----------------------------------------------------------------------------
(* C15 *)

\* C15: the mode is intro at first; a step in mode intro leaves the player
\* and every block as they were and ends in mode playing exactly when it
\* reads the a channel above 0, and in mode intro otherwise; a step in mode
\* playing ends in mode playing; the mode is never gameover.
C15_ModeProgress ==
  /\ state.mode = "intro"
  /\ [](state.mode \in {"intro", "playing"})
  /\ [][/\ state.mode = "intro" =>
             /\ state'.player = state.player
             /\ state'.blocks = state.blocks
             /\ state'.mode = (IF controller'.a > 0 THEN "playing" ELSE "intro")
        /\ state.mode = "playing" => state'.mode = "playing"]_vars

\* The step that read the a channel above 0 has just ended the intro, the
\* player and the blocks still as constructed.
C15_Witness ==
  /\ state.mode = "playing"
  /\ step = 0
  /\ pc = "playerUpdate"
  /\ controller.a > 0
  /\ state.player = initialState.player
  /\ state.blocks = construct(initialState, run, BLOCK_ROW_BUFFER).blocks
  /\ Len(state.blocks) > 0

-----------------------------------------------------------------------------
(* C16 *)

\* C16: at the end of every playing step no block in a pickable state has a
\* rectangle overlapping the player's, unless the player is floating; a block
\* that falls or lands in the step does not end it inside the player.
C16_NoBlockInPlayer ==
  (TickEnd /\ state.player.state # "floating")
    => \A n \in 1..Len(state.blocks) :
         blockIsPickable(state.blocks[n])
           => ~checkAABB(playerRectangle(state.player), blockRectangle(state.blocks[n]))

-----------------------------------------------------------------------------
(* C17 *)

\* C17: in every state the player's rectangle lies between the walls: its
\* left edge is not left of 0 and its right edge not right of
\* GRID_WIDTH * BLOCK_SIZE.
C17_InsideWalls ==
  /\ 0 <= state.player.pos.x - state.player.width \div 2
  /\ state.player.pos.x + state.player.width \div 2 <= GRID_WIDTH * BLOCK_SIZE

-----------------------------------------------------------------------------
(* C18 *)

\* The block loop is at a falling or thrown block whose step down is blocked.
LandingAt(n) ==
  /\ pc = "blockUpdate"
  /\ cursor = n
  /\ n <= Len(state.blocks)
  /\ state.blocks[n].state \in {"falling", "thrown"}
  /\ ~blockMoveAndCollide(state, n, 0,
        IF state.blocks[n].state = "thrown" THEN THROW_SPEED ELSE FALL_SPEED).ok

\* C18: a falling or thrown block whose step down is blocked is in state
\* ground after its update, its bottom edge on the top edge of a pickable
\* block of its own column and its row index one less than that block's.
C18_SettleOnSupport ==
  [][\A n \in 1..Len(state.blocks) :
       LandingAt(n) =>
         /\ state'.blocks[n].state = "ground"
         /\ \E m \in 1..Len(state'.blocks) :
              /\ m # n
              /\ blockIsPickable(state'.blocks[m])
              /\ state'.blocks[m].pos.ix = state'.blocks[n].pos.ix
              /\ state'.blocks[m].pos.y - BLOCK_SIZE = state'.blocks[n].pos.y
              /\ state'.blocks[m].pos.iy - 1 = state'.blocks[n].pos.iy]_vars

-----------------------------------------------------------------------------
(* C19 *)

\* The displacement d lies between zero and the requested movement m.
Between(d, m) == IF m >= 0 THEN 0 <= d /\ d <= m ELSE m <= d /\ d <= 0

Shifted(rect, mx, my) == [rect EXCEPT !.x = @ + mx, !.y = @ + my]

\* rect, moved by (mx, my), has stopped against other: it touches it on the
\* side it moved to and does not overlap it.
Flush(rect, other, mx, my) ==
  /\ ~checkAABB(rect, other)
  /\ mx < 0 => rect.x = other.x + other.width
  /\ mx > 0 => rect.x + rect.width = other.x
  /\ my < 0 => rect.y = other.y + other.height
  /\ my > 0 => rect.y + rect.height = other.y

\* What C19 says of playerMoveAndCollide(w, player, mx, my).
PlayerMoveContract(w, mx, my) ==
  LET moved == Shifted(playerRectangle(w.player), mx, my)
      res == playerMoveAndCollide(w, mx, my)
      after == playerRectangle(res.w.player)
      dx == res.w.player.pos.x - w.player.pos.x
      dy == res.w.player.pos.y - w.player.pos.y
      inWalls == moved.x >= 0 /\ moved.x + moved.width <= GRID_WIDTH * BLOCK_SIZE
      hits == {n \in 1..Len(w.blocks) :
                 /\ blockIsPickable(w.blocks[n])
                 /\ checkAABB(moved, blockRectangle(w.blocks[n]))}
  IN IF inWalls /\ hits = {}
     THEN res.ok /\ dx = mx /\ dy = my
     ELSE /\ ~res.ok
          /\ Between(dx, mx)
          /\ Between(dy, my)
          /\ moved.x < 0 => after.x = 0
          /\ moved.x + moved.width > GRID_WIDTH * BLOCK_SIZE
               => after.x + after.width = GRID_WIDTH * BLOCK_SIZE
          /\ inWalls => \E n \in hits : Flush(after, blockRectangle(w.blocks[n]), mx, my)

\* What C19 says of blockMoveAndCollide(w, w.blocks[i], mx, my).
BlockMoveContract(w, i, mx, my) ==
  LET moved == Shifted(blockRectangle(w.blocks[i]), mx, my)
      res == blockMoveAndCollide(w, i, mx, my)
      after == blockRectangle(res.w.blocks[i])
      dx == res.w.blocks[i].pos.x - w.blocks[i].pos.x
      dy == res.w.blocks[i].pos.y - w.blocks[i].pos.y
      hits == {n \in 1..Len(w.blocks) :
                 /\ n # i
                 /\ blockIsPickable(w.blocks[n])
                 /\ checkAABB(moved, blockRectangle(w.blocks[n]))}
  IN IF hits = {}
     THEN res.ok /\ dx = mx /\ dy = my
     ELSE /\ ~res.ok
          /\ Between(dx, mx)
          /\ Between(dy, my)
          /\ \E n \in hits : Flush(after, blockRectangle(w.blocks[n]), mx, my)

\* C19: a move along one axis that overlaps no pickable block and, for the
\* player, stays between the walls is made in full and answers true; any
\* other answers false and leaves the mover flush against what blocked it,
\* not overlapping it, displaced along the axis of the move by no less than
\* zero and no more than the move.  Stated of the moves a step can ask of the
\* player it starts with, and of the move the block loop asks of each block.
C19_MoveContract ==
  /\ (state.mode = "playing" /\ pc = "playerUpdate" /\ state.player.state # "floating")
       => \A m \in {<<-state.player.speed, 0>>, <<state.player.speed, 0>>,
                    <<0, FALL_SPEED>>, <<0, 2 * FALL_SPEED>>, <<0, -FALL_SPEED>>} :
            PlayerMoveContract(state, m[1], m[2])
  /\ (pc = "blockUpdate" /\ cursor <= Len(state.blocks))
       => /\ state.blocks[cursor].state = "thrown"
               => BlockMoveContract(state, cursor, 0, THROW_SPEED)
          /\ state.blocks[cursor].state \in {"ground", "falling"}
               => BlockMoveContract(state, cursor, 0, FALL_SPEED)

-----------------------------------------------------------------------------
(* C20 *)

\* The ids of the carried list.
Carried(w) == {w.player.blocks[k] : k \in 1..Len(w.player.blocks)}

-----------------------------------------------------------------------------
(* C21 *)

\* C21: at the end of every playing step the carried block at index i of the
\* carried list (from 0) is at x = player.x and
\* y = player.y - player.height - i * BLOCK_SIZE / 2, with ix and iy the
\* floors of these: every lifted block has followed the player's move of
\* the step.
C21_CarriedTracksPlayer ==
  TickEnd =>
    \A k \in 1..Len(state.player.blocks) :
      /\ HasId(state.blocks, state.player.blocks[k])
      /\ ById(state.blocks, state.player.blocks[k]).pos
           = setPosition(state.player.pos.x,
                         state.player.pos.y - state.player.height
                           - (k - 1) * (BLOCK_SIZE \div 2),
                         state.player.pos)

-----------------------------------------------------------------------------
(* C22 *)

\* C22: a thrown block moves down by THROW_SPEED in every step and stays
\* thrown while its step down overlaps no pickable block: a block that is
\* thrown when the block loop of a step begins and still thrown at the end
\* of the step is THROW_SPEED lower.  In the update in which its step down
\* is blocked by a pickable block it becomes ground, and that update sets the
\* player floating exactly when the player's rectangle overlaps the block's
\* after the nudge.
C22_ThrownFalls ==
  /\ [](TickEnd =>
          LET blocks == playerUpdate(tickStart, controller).blocks
          IN \A n \in 1..Len(blocks) :
               blocks[n].state = "thrown" =>
                 /\ HasId(state.blocks, blocks[n].id)
                 /\ ById(state.blocks, blocks[n].id).state = "thrown" =>
                      ById(state.blocks, blocks[n].id).pos
                        = addPosition(0, THROW_SPEED, blocks[n].pos))
  /\ [][\A n \in 1..Len(state.blocks) :
          (pc = "blockUpdate" /\ cursor = n /\ state.blocks[n].state = "thrown") =>
            LET moved == Shifted(blockRectangle(state.blocks[n]), 0, THROW_SPEED)
                hits == {m \in 1..Len(state.blocks) :
                           /\ m # n
                           /\ blockIsPickable(state.blocks[m])
                           /\ checkAABB(moved, blockRectangle(state.blocks[m]))}
                nudged == blockMoveAndCollide(state, n, 0, THROW_SPEED).w.blocks[n]
            IN IF hits = {}
               THEN /\ state'.blocks[n].state = "thrown"
                    /\ state'.blocks[n].pos
                         = addPosition(0, THROW_SPEED, state.blocks[n].pos)
                    /\ state'.player = state.player
               ELSE /\ state'.blocks[n].state = "ground"
                    /\ state'.player =
                         IF checkAABB(playerRectangle(state.player),
                                      blockRectangle(nudged))
                         THEN [state.player EXCEPT !.state = "floating",
                                                   !.jumpTime = FLOATING_TIME]
                         ELSE state.player]_vars

-----------------------------------------------------------------------------
(* C23 *)

\* playerSetState as a function of its inputs: the player it is called on, in
\* any state and with any value of the timer, and the state it is given.
SetStateTimes == -MaxFallCount..JUMP_TIME

SetStateInit ==
  /\ \E s \in playerStates, t \in SetStateTimes :
       state = [initialState EXCEPT !.player.state = s, !.player.jumpTime = t]
  /\ controller = NoKeys
  /\ pc = "call"
  /\ cursor = 1
  /\ run = 1
  /\ step = 0
  /\ free = 0
  /\ tickStart = state
  /\ scanned = state
  /\ entered = {}
  /\ fell = NeverFell

\* One call playerSetState(player, s); tickStart keeps the player it was
\* called on.
SetState ==
  /\ \E s \in playerStates :
       state' = [state EXCEPT !.player = playerSetState(@, s)]
  /\ tickStart' = state
  /\ pc' = "return"
  /\ UNCHANGED <<controller, cursor, run, step, free, scanned, entered, fell>>

SetStateSpec == SetStateInit /\ [][SetState]_vars

\* C23: after playerSetState(player, s) the player is in state s and the
\* timer jumpTime is JUMP_TIME, WALLJUMP_TIME or FLOATING_TIME when s is
\* jumping, walljumping or floating, 5 when s is falling and the state before
\* was ground, and 0 in every other case.
C23_SetStateTimer ==
  pc = "return" =>
    state.player.jumpTime =
      CASE state.player.state = "jumping" -> JUMP_TIME
        [] state.player.state = "walljumping" -> WALLJUMP_TIME
        [] state.player.state = "floating" -> FLOATING_TIME
        [] state.player.state = "falling" /\ tickStart.player.state = "ground" -> 5
        [] OTHER -> 0

\* A player on the ground whose timer was running has been set falling and
\* has the timer at 5.
C23_Witness ==
  /\ pc = "return"
  /\ tickStart.player.state = "ground"
  /\ tickStart.player.jumpTime = JUMP_TIME
  /\ state.player.state = "falling"
  /\ state.player.jumpTime = 5

-----------------------------------------------------------------------------
(* C24 *)

\* The player's update of this step started in state falling, read the up
\* channel at 1 and made no throw.
UpEdgeWhileFalling ==
  /\ AfterPlayer
  /\ tickStart.player.state = "falling"
  /\ controller.up = 1
  /\ ~canThrow(tickStart, controller)

\* The steps since the player's last entry into falling.
SinceFell == step + 1 - fell.at

\* C24: an up edge turns a falling player into a jumping one only when the
\* player entered falling from ground, has been falling since, and the entry
\* is at most 5 steps back; a player who entered falling from any other
\* state, or more than 5 steps ago, is not set jumping by an up edge.
C24_GraceJump ==
  /\ (UpEdgeWhileFalling /\ state.player.state = "jumping")
       => /\ fell.from = "ground"
          /\ SinceFell >= 1
          /\ SinceFell <= 5
  /\ (UpEdgeWhileFalling /\ (fell.from # "ground" \/ SinceFell > 5))
       => state.player.state # "jumping"

\* An up edge in the fifth step after the player fell off the ground has set
\* the player jumping.
C24_Witness ==
  /\ UpEdgeWhileFalling
  /\ state.player.state = "jumping"
  /\ fell.from = "ground"
  /\ SinceFell = 5

-----------------------------------------------------------------------------
(* C25 *)

\* C25: the player's wallriding field is a number other than zero while the
\* player is in state wallride or walljumping, and null in every other state.
C25_WallridingField ==
  IF state.player.state \in {"wallride", "walljumping"}
  THEN state.player.wallriding # <<>> /\ state.player.wallriding[1] # 0
  ELSE state.player.wallriding = <<>>

-----------------------------------------------------------------------------
(* C26 *)

\* The step has generated one row: bottomRow is one more, the blocks there
\* were are as they were but for the star, and the blocks appended are idle
\* blocks of the new row, columns 0..GRID_WIDTH-1 in increasing order, with
\* the ids nextBlockId, nextBlockId + 1, ...
RowGenerated(w, v) ==
  /\ v.bottomRow = w.bottomRow + 1
  /\ Len(v.blocks) >= Len(w.blocks)
  /\ v.nextBlockId = w.nextBlockId + (Len(v.blocks) - Len(w.blocks))
  /\ \A n \in 1..Len(w.blocks) :
       /\ [v.blocks[n] EXCEPT !.star = FALSE] = [w.blocks[n] EXCEPT !.star = FALSE]
       /\ w.blocks[n].id < w.nextBlockId
  /\ \A n \in (Len(w.blocks) + 1)..Len(v.blocks) :
       /\ v.blocks[n].state = "idle"
       /\ v.blocks[n].timer = 0
       /\ v.blocks[n].id = w.nextBlockId + (n - Len(w.blocks) - 1)
       /\ v.blocks[n].pos.iy = v.bottomRow
       /\ v.blocks[n].pos.ix \in 0..GRID_WIDTH - 1
       /\ v.blocks[n].pos = setPosition(v.blocks[n].pos.ix * BLOCK_SIZE + BLOCK_SIZE \div 2,
                                        v.bottomRow * BLOCK_SIZE, v.blocks[n].pos)
       /\ \A m \in (Len(w.blocks) + 1)..(n - 1) :
            v.blocks[m].pos.ix < v.blocks[n].pos.ix

\* C26: bottomRow never decreases; a step that changes it generates one row,
\* of index the previous bottomRow + 1, at most one new idle block to a
\* column, with fresh increasing ids, and no nearer to the player than
\* BLOCK_ROW_BUFFER rows; the rows generated at construction are generated so
\* too; and between steps, at the end of every playing step,
\* bottomRow >= player.iy + BLOCK_ROW_BUFFER, so that the scan window has
\* positive height.
C26_RowSpawner ==
  /\ [](state.mode = "intro" =>
          \A n \in 0..(BLOCK_ROW_BUFFER - 1) :
            RowGenerated(construct(initialState, run, n),
                         construct(initialState, run, n + 1)))
  /\ []((pc = "playerUpdate")
          => state.bottomRow >= state.player.pos.iy + BLOCK_ROW_BUFFER)
  /\ [](solveMaxY(state) - solveMinY(state) + 1 > 0)
  /\ [][/\ state'.bottomRow >= state.bottomRow
        /\ state'.bottomRow # state.bottomRow =>
             /\ RowGenerated(state, state')
             /\ state'.bottomRow >= state.player.pos.iy + BLOCK_ROW_BUFFER]_vars

\* A row of two blocks has just been generated in a playing step, the player
\* having come down a row.
C26_Witness ==
  /\ pc = "createBlockRow"
  /\ state.mode = "playing"
  /\ state.bottomRow = tickStart.bottomRow + 1
  /\ state.player.pos.iy = tickStart.player.pos.iy + 1
  /\ Len(state.blocks) = Len(scanned.blocks) + 2
  /\ state.blocks[Len(state.blocks)].id = state.blocks[Len(state.blocks) - 1].id + 1

-----------------------------------------------------------------------------
(* Continued ticking *)

\* The program never stops stepping: after the keys of the script the steps
\* go on with no key down.  A block that falls with nothing under it falls
\* without end; nothing reads the position of a block that is below the rows
\* generated so far, so at the end of a step such a block is taken back to
\* MaxDepth rows below bottomRow, and the steps after the script are not
\* counted.  Run 1 is left out: its script ends with every block of the
\* player's column solved and the player falling past the last row, rows
\* being generated without end.
MaxDepth == 2

LiveRuns == 2..NumRuns

LiveInit == Init /\ run \in LiveRuns

DeepY(w) == (w.bottomRow + MaxDepth) * BLOCK_SIZE

sinkBlocks(w) ==
  [w EXCEPT !.blocks =
     [n \in 1..Len(w.blocks) |->
        IF w.blocks[n].pos.y > DeepY(w)
        THEN [w.blocks[n] EXCEPT !.pos = setPosition(@.x, DeepY(w), @)]
        ELSE w.blocks[n]]]

LivePlayerUpdate ==
  /\ state.mode = "playing"
  /\ pc = "playerUpdate"
  /\ \/ /\ step < Len(Script(run))
        /\ PlayerStep(press(controller, Script(run)[step + 1], FALSE), 0)
     \/ /\ step >= Len(Script(run))
        /\ PlayerStep(press(controller, {}, FALSE), 0)

LiveSortBlocks ==
  /\ pc = "createBlockRow"
  /\ ~spawnNeeded(state)
  /\ state' = sinkBlocks([state EXCEPT !.blocks = sortBlocks(@)])
  /\ pc' = "playerUpdate"
  /\ step' = Min(step + 1, Len(Script(run)))
  /\ UNCHANGED <<controller, cursor, run, free, tickStart, scanned, entered, fell>>

LiveNext ==
  \/ UpdateIntro
  \/ LivePlayerUpdate
  \/ BlockUpdate
  \/ CheckSolutions
  \/ CreateBlockRow
  \/ LiveSortBlocks

\* draw asks for the next animation frame until the component is taken down
\* and calls step once for every STEP of time that has passed; a call runs to
\* its end.  So in mode playing control always passes on, from the player's
\* update through the loop over the blocks, checkSolutions and the spawn loop
\* to the sort and the next frame.
Frame ==
  /\ state.mode = "playing"
  /\ \/ pc = "playerUpdate" /\ pc' = "blockUpdate" /\ cursor' = 1
     \/ pc = "blockUpdate" /\ pc' = pc /\ cursor' = cursor + 1
     \/ pc = "blockUpdate" /\ pc' = "createBlockRow" /\ cursor' = cursor
     \/ pc = "createBlockRow" /\ pc' = "playerUpdate" /\ cursor' = cursor

LiveSpec == LiveInit /\ [][LiveNext]_vars /\ WF_<<pc, cursor>>(Frame)

-----------------------------------------------------------------------------
(* C27 *)

\* The player's update has just found a floating player clear of every block
\* and set the player jumping.
FloatEnded ==
  /\ AfterPlayer
  /\ tickStart.player.state = "floating"
  /\ state.player.state = "jumping"
  /\ collideBlock(state, playerRectangle(state.player)) = 0

\* C27: with the steps going on, a player who is floating in a playing step
\* comes clear of every block and is set jumping: no behaviour keeps the
\* player floating for ever.
C27_FloatingEnds ==
  (state.mode = "playing" /\ state.player.state = "floating") ~> FloatEnded

\* A floating player has risen out of the block that was overlapping and has
\* just been set jumping, the block under the player's feet.
C27_Witness ==
  /\ FloatEnded
  /\ \E n \in 1..Len(state.blocks) :
       /\ blockIsPickable(state.blocks[n])
       /\ checkAABB(FeetRect(state.player), blockRectangle(state.blocks[n]))

-----------------------------------------------------------------------------
(* C28 *)

\* The ids createBlock can have handed out in a behaviour of the model.
BlockIds == 0..(9 + MaxSpawned + 1)

IsThrown(id) == HasId(state.blocks, id) /\ ById(state.blocks, id).state = "thrown"

IsGround(id) == HasId(state.blocks, id) /\ ById(state.blocks, id).state = "ground"

\* C28: with the steps going on, every block in state thrown collides and
\* becomes ground: no thrown block keeps falling for ever.
C28_ThrownSettles == \A id \in BlockIds : IsThrown(id) ~> IsGround(id)

====
